---- MODULE Spec2Model ----
(***************************************************************************)
(* nonebot-plugin-msgbuf: the message buffer (MessageBuffer), the          *)
(* per-platform conversion proxies (BaseProxy, OB11Proxy, OB12Proxy,       *)
(* QGProxy, TGProxy) and the retry / fallback loop around their send.      *)
(*                                                                         *)
(* A message element ("segment") is a record [kind, data]: kind is the     *)
(* class of models.py, data abstracts the payload to the cases the code    *)
(* branches on.  An outbound bot call is a record [api, parts, reply]:     *)
(* parts lists, in order, the buffer index, the kind and the converted     *)
(* form of every element the call carries.                                 *)
(***************************************************************************)
EXTENDS Naturals, Sequences, FiniteSets

VARIABLES
    proxy,            \* self.proxy: the proxy class find_proxy selected
    specs,            \* self.proxy.specs: the behaviour bitmask
    event,            \* self.proxy.event: "group" (has group_id) or "private"
    msgbuf,           \* self.msgbuf
    ifsend,           \* self.ifsend
    send_incomplete,  \* self.send_incomplete
    retry,            \* self.retry
    fallback,         \* self.fallback
    pc,               \* "idle" | "sending" | "cooldown": position of the running send()
    call,             \* the operation running or last run, and how it was entered
    attempts,         \* the proxy.send attempts of that operation, in order
    result,           \* "none" | "returned" | "raised" | "cancelled": how it ended
    error,            \* the exception that propagates to the caller ("none" if none)
    before,           \* self.msgbuf as it was when that operation was called
    arg,              \* the argument of that operation (0 if it takes none)
    value,            \* the value that operation returned ("none" if not modelled)
    registered_proxies,  \* BaseProxy.registered_proxies
    bot,              \* bot.__module__ of the bot given to find_proxy
    onshelf,          \* AsyncFishCache.onshelf
    real,             \* AsyncFishCache.real
    now,              \* the clock time() reads
    inflight,         \* the cache calls awaiting self.func
    history,          \* the cache calls that have ended, in the order they ended
    fwdbuf,           \* ForwardBuffer.fwdbuf
    nodes,            \* the ForwardNode objects created, in creation order
    dest              \* ForwardBuffer.dest[0]: "private" or "group"

vars == <<proxy, specs, event, msgbuf, ifsend, send_incomplete, retry, fallback,
          pc, call, attempts, result, error, before, arg, value,
          registered_proxies, bot, onshelf, real, now, inflight, history,
          fwdbuf, nodes, dest>>

\* The state of the proxy registry and of the upload cache.
registry == <<registered_proxies, bot>>
cache == <<onshelf, real, now, inflight, history>>

\* The state of the forward-message constructor.
forward == <<fwdbuf, nodes, dest>>

----------------------------------------------------------------------------
(* Bounds of the model. *)

MaxBuf == 2
MaxRetry == 1
MaxFallback == 1
MaxSegs == 3
MaxTime == 3
MaxCalls == 3
MaxShelf == 2

----------------------------------------------------------------------------
(* Specifications (platforms.py, class Specifications). *)

PLATFORM_QQ == 1
OB11_GOCQHTTP == 1024 + PLATFORM_QQ

RECURSIVE BitAnd(_, _)
BitAnd(a, b) ==
    IF a = 0 \/ b = 0 THEN 0
    ELSE (a % 2) * (b % 2) + 2 * BitAnd(a \div 2, b \div 2)

SpecsValues == {0, PLATFORM_QQ, OB11_GOCQHTTP}

Proxies == {"Base", "OB11", "OB12", "QG", "TG"}
PlatformProxies == Proxies \ {"Base"}
EventKinds == {"group", "private"}

----------------------------------------------------------------------------
(* The element model (models.py). *)

MutexKinds == {"Raw", "Voice", "Video", "File", "Share", "Location"}
SingleKinds == {"Reply"}
BodyKinds == {"Text", "Image", "Mention", "Face"} \cup SingleKinds
ModelKinds == MutexKinds \cup BodyKinds

\* A faulty variant: only Raw is taken to be exclusive.
IsRaw(seg) == seg.kind = "Raw"

\* isinstance(seg, Mutex)
IsMutex(seg) == seg.kind \in MutexKinds

\* SupportedFileData = Union[str, Path, bytes, BytesIO]; a str is a plain
\* path, a file:// URI or another URI.
FileData == {"Path", "pathstr", "fileuri", "url", "bytes", "BytesIO"}

\* The payload cases of each kind.  Raw: a str, a segment/message of the
\* active adapter ("own"), or an object of another adapter ("other").
\* Reply / Face / Mention ids: a decimal string or not.
DataOf(kind) ==
    CASE kind = "Raw" -> {"str", "own", "other"}
      [] kind \in {"Image", "Voice", "Video", "File"} -> FileData
      [] kind \in {"Reply", "Face", "Mention"} -> {"digits", "nondigits"}
      [] OTHER -> {"-"}

Models == UNION {[kind : {k}, data : DataOf(k)] : k \in ModelKinds}

Seg(k, d) == [kind |-> k, data |-> d]

\* File.local_path: the error it raises, "none" when it returns a path.
LocalPathError(data) ==
    IF data \in {"bytes", "BytesIO"} THEN "ValueError"
    ELSE IF data = "Path" THEN "none"
    ELSE IF data = "fileuri" THEN "none"
    ELSE "ValueError"

----------------------------------------------------------------------------
(* convert: the result of converting one element.  err is the exception  *)
(* the conversion raises ("none" when it returns); form is what it       *)
(* returns: "native" (the platform's segment of that kind), "alttext"    *)
(* (the platform's text segment holding alternative()), "raw" (the Raw   *)
(* payload itself) or "altstr" (the plain str alternative()); upload     *)
(* says the conversion first awaits bot.upload_file.                     *)
(* The platform segment classes are dataclasses of the adapters, not     *)
(* str: only BaseProxy.convert returns a str.                            *)

Converted(f) == [err |-> "none", form |-> f, upload |-> FALSE]
Uploaded(f) == [err |-> "none", form |-> f, upload |-> TRUE]
Raises(e) == [err |-> e, form |-> "none", upload |-> FALSE]

\* The last two branches every platform convert shares:
\*   elif isinstance(seg, Raw) and seg.raw.__module__.startswith(self.prefix)
\*   return <text segment>(seg.alternative())
\* A str has no attribute __module__.
RawOrAlternative(seg) ==
    IF seg.kind = "Raw"
    THEN IF seg.data = "str" THEN Raises("AttributeError")
         ELSE IF seg.data = "own" THEN Converted("raw")
         ELSE Converted("alttext")
    ELSE Converted("alttext")

\* int(<id>) of a string
IntOf(seg) == IF seg.data = "digits" THEN Converted("native") ELSE Raises("ValueError")

BaseConvert(seg) == Converted("altstr")

OB11Convert(seg) ==
    CASE seg.kind \in {"Text", "Image", "Mention"} -> Converted("native")
      [] seg.kind \in {"Reply", "Face"} -> IntOf(seg)
      [] seg.kind \in {"Voice", "Video", "Share", "Location"} -> Converted("native")
      [] OTHER -> RawOrAlternative(seg)

OB12Convert(seg) ==
    CASE seg.kind \in {"Text", "Mention", "Reply", "Location"} -> Converted("native")
      [] seg.kind \in {"Image", "Voice", "Video", "File"} -> Uploaded("native")
      [] OTHER -> RawOrAlternative(seg)

\* Mention has the one field user_id: reading seg.domain raises.
QGConvert(seg) ==
    CASE seg.kind \in {"Text", "Image", "Reply", "Face"} -> Converted("native")
      [] seg.kind = "Mention" -> Raises("AttributeError")
      [] OTHER -> RawOrAlternative(seg)

\* Text has the one field text, Mention the one field user_id: reading
\* seg.rich and seg.tg_user raises.
TGConvert(seg) ==
    CASE seg.kind \in {"Text", "Mention"} -> Raises("AttributeError")
      [] seg.kind \in {"Image", "Voice", "Video", "File"} ->
            IF seg.data \in {"BytesIO", "bytes"} THEN Converted("native")
            ELSE IF LocalPathError(seg.data) = "none" THEN Converted("native")
            ELSE Raises(LocalPathError(seg.data))
      [] seg.kind \in {"Face", "Location"} -> Converted("native")
      [] OTHER -> RawOrAlternative(seg)

\* self.convert(seg): dispatched on the proxy's class.
Convert(p, seg) ==
    CASE p = "OB11" -> OB11Convert(seg)
      [] p = "OB12" -> OB12Convert(seg)
      [] p = "QG" -> QGConvert(seg)
      [] p = "TG" -> TGConvert(seg)
      [] OTHER -> BaseConvert(seg)

----------------------------------------------------------------------------
(* Outbound bot calls.  A send plan is what one proxy.send does when no  *)
(* bot call fails: calls, the bot calls in the order they are issued,    *)
(* and err, the exception a conversion raises part-way ("none" if the    *)
(* send returns).  The first conc calls are awaited together (the        *)
(* uploads under asyncio.gather); the others one after the other.        *)

Part(i, seg, form) == [i |-> i, kind |-> seg.kind, form |-> form]

\* self.bot.send(self.event, <message>, reply_to_message_id=reply);
\* reply is the buffer index of the Reply whose id is passed, 0 for none.
SendCall(parts, reply) == [api |-> "send", parts |-> parts, reply |-> reply]

\* self.bot.upload_file(...), awaited by OB12Proxy.convert
UploadCall(i, seg) == [api |-> "upload_file", parts |-> <<Part(i, seg, "data")>>, reply |-> 0]

\* The loop state of a send: the accumulated message, the calls issued,
\* the Telegram reply target and the exception raised so far.
StartState == [msg |-> <<>>, calls |-> <<>>, reply |-> 0, err |-> "none"]

\* BaseProxy.flush_with_log
FlushWithLog(st) ==
    IF st.msg # <<>>
    THEN [st EXCEPT !.calls = Append(@, SendCall(st.msg, 0)), !.msg = <<>>]
    ELSE st

\* msg.append(await self.convert(seg))
AppendConverted(p, st, i, seg) ==
    LET c == Convert(p, seg)
        up == IF c.upload THEN Append(st.calls, UploadCall(i, seg)) ELSE st.calls
    IN  IF c.err # "none" THEN [st EXCEPT !.err = c.err]
        ELSE [st EXCEPT !.calls = up, !.msg = Append(@, Part(i, seg, c.form))]

\* call_result.append(await self.bot.send(self.event, await self.convert(seg)))
SendConverted(p, st, i, seg, reply) ==
    LET c == Convert(p, seg)
        up == IF c.upload THEN Append(st.calls, UploadCall(i, seg)) ELSE st.calls
    IN  IF c.err # "none" THEN [st EXCEPT !.err = c.err]
        ELSE [st EXCEPT !.calls = Append(up, SendCall(<<Part(i, seg, c.form)>>, reply))]

\* call_result.append(await self.bot.send(self.event, seg.raw))
SendRaw(st, i, seg, reply) ==
    [st EXCEPT !.calls = Append(@, SendCall(<<Part(i, seg, "raw")>>, reply))]

\* isinstance(seg, Raw) and isinstance(seg.raw, (str, <segment>, <message>))
IsSendableRaw(seg) == seg.kind = "Raw" /\ seg.data \in {"str", "own"}

\* A faulty variant: the lookup finds nothing.
HoldsNothing(msg, kinds) == FALSE

\* msg[<type>]: the accumulated message holds a segment of that type
Holds(msg, kinds) == \E j \in 1..Len(msg) : msg[j].form = "native" /\ msg[j].kind \in kinds

\* The trailing "if msg: call_result.append(await self.bot.send(...))"
FinalFlush(st, reply) ==
    IF st.err = "none" /\ st.msg # <<>>
    THEN [st EXCEPT !.calls = Append(@, SendCall(st.msg, reply)), !.msg = <<>>]
    ELSE st

\* OB11Proxy.send: the File branch of a Mutex element
OB11UploadFile(ev, st, i, seg) ==
    IF LocalPathError(seg.data) # "none"
    THEN [st EXCEPT !.err = LocalPathError(seg.data)]
    ELSE [st EXCEPT !.calls = Append(@,
            [api |-> IF ev = "group" THEN "upload_group_file" ELSE "upload_private_file",
             parts |-> <<Part(i, seg, "file")>>, reply |-> 0])]

\* OB11Proxy.send: the body of the for loop
OB11Step(sp, ev, st, i, seg) ==
    IF IsMutex(seg)
    THEN LET f == FlushWithLog(st)
         IN  IF BitAnd(sp, OB11_GOCQHTTP) # 0 /\ seg.kind = "File"
             THEN OB11UploadFile(ev, f, i, seg)
             ELSE IF IsSendableRaw(seg) THEN SendRaw(f, i, seg, 0)
             ELSE SendConverted("OB11", f, i, seg, 0)
    ELSE LET f == IF BitAnd(sp, PLATFORM_QQ) # 0 /\ Holds(st.msg, {"Reply"})
                     /\ seg.kind = "Image"
                  THEN FlushWithLog(st) ELSE st
         IN  AppendConverted("OB11", f, i, seg)

\* OB12Proxy.send: the body of the for loop
OB12Step(sp, st, i, seg) ==
    IF IsMutex(seg)
    THEN LET f == FlushWithLog(st)
         IN  IF IsSendableRaw(seg) THEN SendRaw(f, i, seg, 0)
             ELSE SendConverted("OB12", f, i, seg, 0)
    ELSE LET f == IF BitAnd(sp, PLATFORM_QQ) # 0 /\ Holds(st.msg, {"Reply"})
                     /\ seg.kind = "Image"
                  THEN FlushWithLog(st) ELSE st
         IN  AppendConverted("OB12", f, i, seg)

\* QGProxy.send: the body of the for loop.  The first two branches flush
\* and do nothing else: the element is neither appended nor sent.
QGStep(st, i, seg) ==
    IF seg.kind = "Image" /\ Holds(st.msg, {"Image"}) THEN FlushWithLog(st)
    ELSE IF seg.kind = "Reply" /\ Holds(st.msg, {"Reply"}) THEN FlushWithLog(st)
    ELSE IF IsSendableRaw(seg) THEN SendRaw(FlushWithLog(st), i, seg, 0)
    ELSE AppendConverted("QG", st, i, seg)

\* TGProxy.send: the body of the for loop
TGStep(st, i, seg) ==
    IF IsMutex(seg)
    THEN LET f == FlushWithLog(st)
         IN  IF IsSendableRaw(seg) THEN SendRaw(f, i, seg, st.reply)
             ELSE SendConverted("TG", f, i, seg, st.reply)
    ELSE IF seg.kind = "Reply"
         THEN IF seg.data = "digits" THEN [st EXCEPT !.reply = i]
              ELSE [st EXCEPT !.err = "ValueError"]
         ELSE AppendConverted("TG", st, i, seg)

Step(p, sp, ev, st, i, seg) ==
    CASE p = "OB11" -> OB11Step(sp, ev, st, i, seg)
      [] p = "OB12" -> OB12Step(sp, st, i, seg)
      [] p = "QG" -> QGStep(st, i, seg)
      [] OTHER -> TGStep(st, i, seg)

\* for seg in segs: ...   (an exception ends the loop)
RECURSIVE Walk(_, _, _, _, _, _)
Walk(p, sp, ev, segs, i, st) ==
    IF i > Len(segs) \/ st.err # "none" THEN st
    ELSE Walk(p, sp, ev, segs, i + 1, Step(p, sp, ev, st, i, segs[i]))

\* asyncio.gather(*(self.convert(seg) for seg in segs)): every conversion
\* runs; the first exception in order is the one raised.
RECURSIVE Gather(_, _, _, _)
Gather(p, segs, i, st) ==
    IF i > Len(segs) THEN st
    ELSE LET c == Convert(p, segs[i])
             up == IF c.upload THEN Append(st.calls, UploadCall(i, segs[i])) ELSE st.calls
             e == IF st.err = "none" THEN c.err ELSE st.err
         IN  Gather(p, segs, i + 1,
                    [st EXCEPT !.calls = up, !.err = e,
                               !.msg = IF c.err = "none"
                                       THEN Append(@, Part(i, segs[i], c.form)) ELSE @])

\* "".join(...) of the converted forms: a TypeError unless all are str
JoinError(msg) ==
    IF \E j \in 1..Len(msg) : msg[j].form # "altstr" THEN "TypeError" ELSE "none"

Plan(st, conc, fixed) == [calls |-> st.calls, err |-> st.err, conc |-> conc, fixed |-> fixed]

\* BaseProxy.send: one bot.send of the joined conversions
BaseSend(p, segs) ==
    LET g == Gather(p, segs, 1, StartState)
        n == Len(g.calls)
    IN  IF g.err # "none" THEN Plan(g, n, TRUE)
        ELSE IF JoinError(g.msg) # "none" THEN Plan([g EXCEPT !.err = JoinError(g.msg)], n, FALSE)
        ELSE Plan([g EXCEPT !.calls = Append(@, SendCall(g.msg, 0))], n, FALSE)

\* <Platform>Proxy.send
PlatformSend(p, sp, ev, segs, use_fallback) ==
    IF use_fallback THEN BaseSend(p, segs)
    ELSE LET w == Walk(p, sp, ev, segs, 1, StartState)
         IN  Plan(FinalFlush(w, w.reply), 0, FALSE)

\* self.proxy.send(*self.msgbuf, use_fallback=use_fallback)
ProxySend(p, sp, ev, segs, use_fallback) ==
    IF p = "Base" THEN BaseSend(p, segs)
    ELSE PlatformSend(p, sp, ev, segs, use_fallback)

----------------------------------------------------------------------------
(* One attempt against the bot.  The bot may reject any call with        *)
(* ActionFailed: k = 0 is the attempt in which no call fails, k > 0 the  *)
(* one in which the k-th call of the plan fails.  Calls awaited together *)
(* have all been issued when one of them fails.                          *)

\* The calls of the plan that can fail: none when a conversion raised
\* before the gathered calls were awaited.
FailPoints(plan) == IF plan.fixed THEN {} ELSE 1..Len(plan.calls)

\* A faulty variant: the calls after the failed one are issued all the same.
OutcomeIssuingAll(plan, k) ==
    IF k = 0 THEN [calls |-> plan.calls, failed |-> 0, err |-> plan.err]
    ELSE [calls |-> plan.calls, failed |-> k, err |-> "ActionFailed"]

\* A faulty variant: an attempt that follows one rejected at its k-th call
\* resumes there, leaving out the k-1 calls that had gone through.
OutcomeResuming(plan, k) ==
    LET done == IF attempts # <<>> /\ attempts[Len(attempts)].failed > 1
                THEN attempts[Len(attempts)].failed - 1 ELSE 0
        upto == IF k = 0 THEN Len(plan.calls)
                ELSE IF k <= plan.conc THEN plan.conc ELSE k
    IN  [calls |-> SubSeq(plan.calls, done + 1, upto), failed |-> k,
         err |-> IF k = 0 THEN plan.err ELSE "ActionFailed"]

\* calls: the calls issued; failed: the index of the one that failed
Outcome(plan, k) ==
    IF k = 0 THEN [calls |-> plan.calls, failed |-> 0, err |-> plan.err]
    ELSE [calls |-> SubSeq(plan.calls, 1, IF k <= plan.conc THEN plan.conc ELSE k),
          failed |-> k, err |-> "ActionFailed"]

----------------------------------------------------------------------------
(* MessageBuffer (__init__.py).  __enter__ and __aenter__ return self    *)
(* and change nothing, so entering a block is no step of the model; the  *)
(* exit hooks are operations the caller's block ends with.               *)

\* The elements the caller appends.
Inputs == { Seg("Text", "-"), Seg("Voice", "bytes") }

NoCall == [op |-> "none", fb |-> FALSE, exc |-> FALSE]

Op(name, fb, exc) == [op |-> name, fb |-> fb, exc |-> exc]

\* specs is read by the OneBot proxies only, the event's group_id by
\* OB11Proxy only.
SpecsFor(p) == IF p \in {"OB11", "OB12"} THEN SpecsValues ELSE {0}
EventsFor(p) == IF p = "OB11" THEN EventKinds ELSE {"private"}

\* The registry and the cache as a specification that does not exercise
\* them holds them: no proxy registered, no cache call made.
IdleRegistry == registered_proxies = <<>> /\ bot = <<>>
\* No forward message is being constructed.
IdleForward == fwdbuf = <<>> /\ nodes = <<>> /\ dest = "private"

IdleCache ==
    /\ onshelf = 0
    /\ real = <<>>
    /\ now = 0
    /\ inflight = {}
    /\ history = <<>>

\* A fresh buffer: no operation called yet.
FreshBuffer == before = <<>> /\ arg = 0 /\ value = "none"

\* An operation of the buffer is called with argument a.
Called(a) == before' = msgbuf /\ arg' = a /\ value' = "none"

\* MessageBuffer.__init__, with the default specs.  No proxy reads specs or
\* the event's group_id for the elements of Inputs.
Init ==
    /\ proxy \in Proxies
    /\ specs = 0
    /\ event = "private"
    /\ msgbuf = <<>>
    /\ ifsend \in BOOLEAN
    /\ send_incomplete \in BOOLEAN
    /\ retry \in 0..MaxRetry
    /\ fallback \in 0..MaxFallback
    /\ pc = "idle"
    /\ call = NoCall
    /\ attempts = <<>>
    /\ result = "none"
    /\ error = "none"
    /\ FreshBuffer
    /\ IdleRegistry
    /\ IdleCache
    /\ IdleForward

config == <<proxy, specs, event, ifsend, send_incomplete>>

\* self.msgbuf.append(m)
Push(m) ==
    /\ pc = "idle"
    /\ msgbuf' = Append(msgbuf, m)
    /\ call' = Op("append", FALSE, FALSE)
    /\ attempts' = <<>>
    /\ result' = "returned"
    /\ error' = "none"
    /\ Called(1)
    /\ UNCHANGED <<config, retry, fallback, pc, registry, cache, forward>>

\* buf << m, and text / image / ... / location, which append one element
Lshift(m) == Len(msgbuf) < MaxBuf /\ Push(m)

\* await buf.send(use_fallback=fb)
Send(fb) ==
    /\ pc = "idle"
    /\ pc' = "sending"
    /\ call' = Op("send", fb, FALSE)
    /\ attempts' = <<>>
    /\ result' = "none"
    /\ error' = "none"
    /\ Called(0)
    /\ UNCHANGED <<config, msgbuf, retry, fallback, registry, cache, forward>>

\* await buf.flush(): the call of send()
Flush ==
    /\ pc = "idle"
    /\ pc' = "sending"
    /\ call' = Op("flush", FALSE, FALSE)
    /\ attempts' = <<>>
    /\ result' = "none"
    /\ error' = "none"
    /\ Called(0)
    /\ UNCHANGED <<config, msgbuf, retry, fallback, registry, cache, forward>>

\* A faulty variant: the block's error is not looked at.
SendsOnExitIgnoringError(exc_tb) == ifsend /\ msgbuf # <<>>

\* __aexit__: the condition under which it awaits self.send()
SendsOnExit(exc_tb) ==
    ifsend /\ (~exc_tb \/ send_incomplete) /\ msgbuf # <<>>

\* A faulty variant: the hook returns True for an erroring block.
ExitReturnSwallowing(exc_tb) == IF exc_tb THEN "True" ELSE "None"

\* __aexit__ / __exit__: the value returned ("if exc_tb: return False")
ExitReturn(exc_tb) == IF exc_tb THEN "False" ELSE "None"

\* What the caller of the block sees after the exit hook returned ret: the
\* block's exception unless the hook returned a true value.
AfterExit(exc_tb, ret) == IF exc_tb /\ ret # "True" THEN "BlockError" ELSE "none"

\* __aexit__(exc_tp, exc_val, exc_tb)
AExit(exc_tb) ==
    /\ pc = "idle"
    /\ call' = Op("aexit", FALSE, exc_tb)
    /\ attempts' = <<>>
    /\ IF SendsOnExit(exc_tb)
       THEN /\ pc' = "sending"
            /\ result' = "none"
            /\ error' = "none"
       ELSE /\ pc' = "idle"
            /\ result' = "returned"
            /\ error' = AfterExit(exc_tb, ExitReturn(exc_tb))
    /\ Called(0)
    /\ UNCHANGED <<config, msgbuf, retry, fallback, registry, cache, forward>>

\* __exit__(exc_tp, exc_val, exc_tb): it only logs a warning
Exit(exc_tb) ==
    /\ pc = "idle"
    /\ call' = Op("exit", FALSE, exc_tb)
    /\ attempts' = <<>>
    /\ pc' = "idle"
    /\ result' = "returned"
    /\ error' = AfterExit(exc_tb, ExitReturn(exc_tb))
    /\ Called(0)
    /\ UNCHANGED <<config, msgbuf, retry, fallback, registry, cache, forward>>

\* A faulty variant: the buffer is cleared by send() itself.
BufferAfterCleared(op, buf) == <<>>

\* A faulty variant: flush() without its clear().
BufferAfterKept(op, buf) == buf

\* flush(): "self.msgbuf.clear()" runs once send() has returned
BufferAfter(op, buf) == IF op = "flush" THEN <<>> ELSE buf

\* A faulty variant: the fallback budget is spent before the retry budget.
OnActionFailedFallbackFirst ==
    IF fallback > 0 THEN "fallback" ELSE IF retry > 0 THEN "retry" ELSE "raise"

\* send(): what follows "except ActionFailed"
OnActionFailed ==
    IF retry > 0 THEN "retry" ELSE IF fallback > 0 THEN "fallback" ELSE "raise"

\* A faulty variant: a bare "except Exception".
CaughtAny(e) == TRUE

\* send(): "except ActionFailed" catches e
Caught(e) == e = "ActionFailed"

\* The record of one attempt: its mode, the counters when it was made,
\* the calls it issued and how it ended.
Logged(o) ==
    Append(attempts, [fb |-> call.fb, retry |-> retry, fallback |-> fallback,
                      calls |-> o.calls, failed |-> o.failed, err |-> o.err])

\* The operation returns to its caller.
Returns ==
    /\ pc' = "idle"
    /\ result' = "returned"
    /\ msgbuf' = BufferAfter(call.op, msgbuf)
    /\ error' = IF call.op = "aexit" THEN AfterExit(call.exc, ExitReturn(call.exc))
                ELSE "none"

\* The operation raises e to its caller.
RaisesError(e) ==
    /\ pc' = "idle"
    /\ result' = "raised"
    /\ error' = e
    /\ msgbuf' = msgbuf

\* One "await self.proxy.send(...)" of send(), and what send() does with
\* its result up to the next suspension.
Attempt(k) ==
    /\ pc = "sending"
    /\ LET plan == ProxySend(proxy, specs, event, msgbuf, call.fb)
           o == Outcome(plan, k)
       IN  /\ k = 0 \/ k \in FailPoints(plan)
           /\ attempts' = Logged(o)
           /\ IF o.err = "none" THEN Returns
              ELSE IF Caught(o.err) /\ OnActionFailed # "raise"
              THEN /\ pc' = "cooldown"
                   /\ UNCHANGED <<msgbuf, result, error>>
              ELSE RaisesError(o.err)
    /\ UNCHANGED <<config, retry, fallback, call, before, arg, value, registry, cache, forward>>

\* A faulty variant: the retry path takes its attempt from the fallback
\* counter.
ResumeOnFallbackCounter ==
    /\ pc = "cooldown"
    /\ fallback' = fallback - 1
    /\ retry' = retry
    /\ call' = [call EXCEPT !.fb = (OnActionFailed # "retry")]
    /\ pc' = "sending"
    /\ UNCHANGED <<config, msgbuf, attempts, result, error, before, arg, value,
                   registry, cache, forward>>

\* After "await asyncio.sleep(self.cooldown)": the counter is decremented
\* and send() calls itself.
Resume ==
    /\ pc = "cooldown"
    /\ IF OnActionFailed = "retry"
       THEN /\ retry' = retry - 1
            /\ fallback' = fallback
            /\ call' = [call EXCEPT !.fb = FALSE]
       ELSE /\ fallback' = fallback - 1
            /\ retry' = retry
            /\ call' = [call EXCEPT !.fb = TRUE]
    /\ pc' = "sending"
    /\ UNCHANGED <<config, msgbuf, attempts, result, error, before, arg, value,
                   registry, cache, forward>>

\* The task running send() is cancelled while it awaits
\* asyncio.sleep(self.cooldown): CancelledError is raised out of the
\* "except ActionFailed" block, before the counter is decremented.
Cancel ==
    /\ pc = "cooldown"
    /\ pc' = "idle"
    /\ result' = "cancelled"
    /\ error' = "CancelledError"
    /\ UNCHANGED <<config, msgbuf, retry, fallback, call, attempts, before, arg, value,
                   registry, cache, forward>>

Next ==
    \/ \E m \in Inputs : Lshift(m)
    \/ \E fb \in BOOLEAN : Send(fb)
    \/ Flush
    \/ \E exc_tb \in BOOLEAN : AExit(exc_tb)
    \/ \E exc_tb \in BOOLEAN : Exit(exc_tb)
    \/ \E k \in 0..(2 * Len(msgbuf) + 1) : Attempt(k)
    \/ Resume
    \/ Cancel

Spec == Init /\ [][Next]_vars

----------------------------------------------------------------------------
(* The proxies on their own: a buffer without retry or fallback budget,  *)
(* filled from a wider set of elements and sent in either mode.          *)

SendInputs ==
    { Seg("Text", "-"), Seg("Image", "Path"), Seg("Reply", "digits"),
      Seg("Face", "digits"), Seg("Voice", "bytes"), Seg("File", "Path"),
      Seg("Raw", "str") }

InitProxy ==
    /\ proxy \in Proxies
    /\ specs \in SpecsFor(proxy)
    /\ event \in EventsFor(proxy)
    /\ msgbuf = <<>>
    /\ ifsend = TRUE
    /\ send_incomplete = FALSE
    /\ retry = 0
    /\ fallback = 0
    /\ pc = "idle"
    /\ call = NoCall
    /\ attempts = <<>>
    /\ result = "none"
    /\ error = "none"
    /\ FreshBuffer
    /\ IdleRegistry
    /\ IdleCache
    /\ IdleForward

LshiftAny(m) == Len(msgbuf) < MaxSegs /\ Push(m)

NextProxy ==
    \/ \E m \in SendInputs : LshiftAny(m)
    \/ \E fb \in BOOLEAN : Send(fb)
    \/ \E k \in 0..(2 * Len(msgbuf) + 1) : Attempt(k)

SpecProxy == InitProxy /\ [][NextProxy]_vars

----------------------------------------------------------------------------
(* The buffer-building operations on their own (MessageBuffer and        *)
(* MsgBufManager): <<, add, revert, export, and local_path of a buffered *)
(* File.                                                                 *)

\* The elements the caller appends: a File of every payload case.
BufInputs == { Seg("Text", "-") } \cup { Seg("File", d) : d \in FileData }

\* The argument tuples m of add(*m) that leave the buffer within its bound
Batches(room) == UNION { [1..k -> BufInputs] : k \in 0..room }

\* A faulty variant: popleft() in place of pop().
PoppedLeft(buf) == Tail(buf)

\* self.msgbuf.pop() on a non-empty deque
Popped(buf) == SubSeq(buf, 1, Len(buf) - 1)

\* revert(n): "for _ in range(n): self.msgbuf.pop()".  pop() on an empty
\* deque raises IndexError; what was popped before stays popped.
RECURSIVE Reverted(_, _)
Reverted(buf, n) ==
    IF n = 0 THEN [buf |-> buf, err |-> "none"]
    ELSE IF buf = <<>> THEN [buf |-> buf, err |-> "IndexError"]
    ELSE Reverted(Popped(buf), n - 1)

\* A faulty variant: the convert flag is not looked at.
ExportedIgnoringConvert(p, buf, convert) ==
    [err |-> "none", list |-> [i \in 1..Len(buf) |-> Part(i, buf[i], "model")],
     calls |-> <<>>]

\* export(convert): the list it returns, the bot calls the conversions
\* issue and the exception raised.  list(self.msgbuf) holds the elements
\* themselves (form "model").
Exported(p, buf, convert) ==
    IF convert
    THEN LET g == Gather(p, buf, 1, StartState)
         IN  [err |-> g.err, list |-> g.msg, calls |-> g.calls]
    ELSE [err |-> "none", list |-> [i \in 1..Len(buf) |-> Part(i, buf[i], "model")],
          calls |-> <<>>]

\* File.local_path: the str it returns
LocalPathValue(data) == IF data = "Path" THEN "str(file)" ELSE "file[7:]"

InitBuf ==
    /\ proxy \in Proxies
    /\ specs = 0
    /\ event = "private"
    /\ msgbuf = <<>>
    /\ ifsend = TRUE
    /\ send_incomplete = FALSE
    /\ retry = 0
    /\ fallback = 0
    /\ pc = "idle"
    /\ call = NoCall
    /\ attempts = <<>>
    /\ result = "none"
    /\ error = "none"
    /\ FreshBuffer
    /\ IdleRegistry
    /\ IdleCache
    /\ IdleForward

\* buf << m with m one of BufInputs
LshiftElem(m) == Len(msgbuf) < MaxBuf /\ Push(m)

\* buf.add(*ms)
Add(ms) ==
    /\ pc = "idle"
    /\ msgbuf' = msgbuf \o ms
    /\ call' = Op("add", FALSE, FALSE)
    /\ attempts' = <<>>
    /\ result' = "returned"
    /\ error' = "none"
    /\ Called(Len(ms))
    /\ UNCHANGED <<config, retry, fallback, pc, registry, cache, forward>>

\* buf.revert(n)
Revert(n) ==
    /\ pc = "idle"
    /\ LET r == Reverted(msgbuf, n)
       IN  /\ msgbuf' = r.buf
           /\ result' = IF r.err = "none" THEN "returned" ELSE "raised"
           /\ error' = r.err
    /\ call' = Op("revert", FALSE, FALSE)
    /\ attempts' = <<>>
    /\ before' = msgbuf
    /\ arg' = n
    /\ value' = "none"
    /\ UNCHANGED <<config, retry, fallback, pc, registry, cache, forward>>

\* await buf.export(convert)
Export(convert) ==
    /\ pc = "idle"
    /\ LET e == Exported(proxy, msgbuf, convert)
       IN  /\ result' = IF e.err = "none" THEN "returned" ELSE "raised"
           /\ error' = e.err
           /\ value' = [list |-> e.list, calls |-> e.calls]
    /\ call' = Op("export", FALSE, FALSE)
    /\ attempts' = <<>>
    /\ before' = msgbuf
    /\ arg' = convert
    /\ UNCHANGED <<config, msgbuf, retry, fallback, pc, registry, cache, forward>>

\* buf.msgbuf[i].local_path(), for a File at position i
LocalPath(i) ==
    /\ pc = "idle"
    /\ i \in 1..Len(msgbuf)
    /\ msgbuf[i].kind = "File"
    /\ LET e == LocalPathError(msgbuf[i].data)
       IN  /\ result' = IF e = "none" THEN "returned" ELSE "raised"
           /\ error' = e
           /\ value' = IF e = "none" THEN LocalPathValue(msgbuf[i].data) ELSE "none"
    /\ call' = Op("local_path", FALSE, FALSE)
    /\ attempts' = <<>>
    /\ before' = msgbuf
    /\ arg' = i
    /\ UNCHANGED <<config, msgbuf, retry, fallback, pc, registry, cache, forward>>

NextBuf ==
    \/ \E m \in BufInputs : LshiftElem(m)
    \/ \E ms \in Batches(MaxBuf - Len(msgbuf)) : Add(ms)
    \/ \E n \in 0..(MaxBuf + 1) : Revert(n)
    \/ \E convert \in BOOLEAN : Export(convert)
    \/ \E i \in 1..MaxBuf : LocalPath(i)

SpecBuf == InitBuf /\ [][NextBuf]_vars

----------------------------------------------------------------------------
(* The proxy registry (platforms.py): BaseProxy.__init_subclass__ and    *)
(* find_proxy.  A dotted module name is the sequence of its pieces;      *)
(* str.startswith is the prefix relation on such sequences.  An entry of *)
(* the registry is a record [cls, prefix].                               *)

\* prefix of the four proxies platforms.py defines
Prefix(cls) ==
    CASE cls = "OB11" -> <<"nonebot", "adapters", "onebot", "v11">>
      [] cls = "OB12" -> <<"nonebot", "adapters", "onebot", "v12">>
      [] cls = "QG" -> <<"nonebot", "adapters", "qqguild">>
      [] cls = "TG" -> <<"nonebot", "adapters", "telegram">>
      [] OTHER -> <<>>

\* The order in which platforms.py defines them, each under its own
\* "with suppress(ImportError)".
DefinitionOrder == <<"OB11", "OB12", "QG", "TG">>

\* Subclasses defined outside platforms.py, and the prefix they declare or
\* inherit: that of BaseProxy (""), one shared by every adapter, that of
\* OB11Proxy, one of an adapter platforms.py does not know.
UserProxies == {"UserA", "UserB"}
UserPrefixes ==
    { <<>>, <<"nonebot", "adapters">>, Prefix("OB11"), <<"nonebot", "adapters", "console">> }

\* bot.__module__ of the bots find_proxy is given
BotModules ==
    { Prefix(c) \o <<"bot">> : c \in PlatformProxies }
        \cup { <<"nonebot", "adapters", "console", "bot">>, <<"tests", "fake_bot">> }

\* s.startswith(p)
StartsWith(s, p) == Len(p) <= Len(s) /\ SubSeq(s, 1, Len(p)) = p

\* next((p for p in reg if b.startswith(p.prefix)), BaseProxy), read from
\* position i on
RECURSIVE FirstMatch(_, _, _)
FirstMatch(reg, b, i) ==
    IF i > Len(reg) THEN "Base"
    ELSE IF StartsWith(b, reg[i].prefix) THEN reg[i].cls
    ELSE FirstMatch(reg, b, i + 1)

\* The same search from position i down.
RECURSIVE LastMatch(_, _, _)
LastMatch(reg, b, i) ==
    IF i = 0 THEN "Base"
    ELSE IF StartsWith(b, reg[i].prefix) THEN reg[i].cls
    ELSE LastMatch(reg, b, i - 1)

\* A faulty variant: the last match wins.
find_proxy_last(reg, b) == LastMatch(reg, b, Len(reg))

\* find_proxy(bot)
find_proxy(reg, b) == FirstMatch(reg, b, 1)

\* The registry once platforms.py is imported: the proxies whose adapter
\* could be imported, in definition order.
Imported(available) ==
    LET IsAvailable(c) == c \in available
        order == SelectSeq(DefinitionOrder, IsAvailable)
    IN  [i \in 1..Len(order) |-> [cls |-> order[i], prefix |-> Prefix(order[i])]]

InitFind ==
    /\ \E available \in SUBSET PlatformProxies : registered_proxies = Imported(available)
    /\ bot = <<>>
    /\ proxy = "Base"
    /\ specs = 0
    /\ event = "private"
    /\ msgbuf = <<>>
    /\ ifsend = TRUE
    /\ send_incomplete = FALSE
    /\ retry = 0
    /\ fallback = 0
    /\ pc = "idle"
    /\ call = NoCall
    /\ attempts = <<>>
    /\ result = "none"
    /\ error = "none"
    /\ FreshBuffer
    /\ IdleCache
    /\ IdleForward

unselected == <<specs, event, msgbuf, ifsend, send_incomplete, retry, fallback,
                pc, attempts, before, arg, value>>

\* BaseProxy.__init_subclass__, run by "class cls(<a proxy>)"
InitSubclass(cls, prefix) ==
    /\ \A i \in 1..Len(registered_proxies) : registered_proxies[i].cls # cls
    /\ registered_proxies' = Append(registered_proxies, [cls |-> cls, prefix |-> prefix])
    /\ call' = Op("init_subclass", FALSE, FALSE)
    /\ result' = "returned"
    /\ error' = "none"
    /\ UNCHANGED <<unselected, proxy, bot, cache, forward>>

\* self.proxy = find_proxy(bot)(...), for a bot of module b
FindProxy(b) ==
    /\ bot' = b
    /\ proxy' = find_proxy(registered_proxies, b)
    /\ call' = Op("find_proxy", FALSE, FALSE)
    /\ result' = "returned"
    /\ error' = "none"
    /\ UNCHANGED <<unselected, registered_proxies, cache, forward>>

NextFind ==
    \/ \E cls \in UserProxies, prefix \in UserPrefixes : InitSubclass(cls, prefix)
    \/ \E b \in BotModules : FindProxy(b)

SpecFind == InitFind /\ [][NextFind]_vars

----------------------------------------------------------------------------
(* The memoizing cache (utils.py, AsyncFishCache).  An entry of real is a *)
(* record [args, t, val]: the arguments, the time of the call that made   *)
(* it and the value stored.  A call that finds no entry awaits self.func: *)
(* it is in inflight until the function returns or raises.  An entry of   *)
(* history records a call that ended: its arguments, the time it read,    *)
(* whether it invoked self.func, the value it returned and its error.     *)
(* The wrapped function returns a new value at each invocation.           *)

\* The argument tuples the cache is called with
CacheArgs == {"a", "b"}

\* A faulty variant: an entry exactly onshelf old is dropped.
OnShelfStrict(e, t) == t - e.t < onshelf

\* "now - t[2] <= self.onshelf"
OnShelf(e, t) == t - e.t <= onshelf

\* self.real = [t for t in self.real if now - t[2] <= self.onshelf]
Kept(t) == LET Keep(e) == OnShelf(e, t) IN SelectSeq(real, Keep)

\* "for pa, ka, _, val in self.real: if pa == args and ka == kwds": the
\* positions of the entries made for these arguments
Hits(entries, a) == {i \in 1..Len(entries) : entries[i].args = a}

\* The first of them.
FirstHit(entries, a) == CHOOSE i \in Hits(entries, a) : \A j \in Hits(entries, a) : i <= j

\* The number of invocations of self.func that have ended
Invocations == Cardinality({j \in 1..Len(history) : history[j].invoked})

Recorded(c, invoked, val, err) ==
    Append(history, [args |-> c.args, t |-> c.t, invoked |-> invoked,
                     val |-> val, err |-> err])

InitCache ==
    /\ onshelf \in 0..MaxShelf
    /\ real = <<>>
    /\ now = 0
    /\ inflight = {}
    /\ history = <<>>
    /\ proxy = "Base"
    /\ specs = 0
    /\ event = "private"
    /\ msgbuf = <<>>
    /\ ifsend = TRUE
    /\ send_incomplete = FALSE
    /\ retry = 0
    /\ fallback = 0
    /\ pc = "idle"
    /\ call = NoCall
    /\ attempts = <<>>
    /\ result = "none"
    /\ error = "none"
    /\ FreshBuffer
    /\ IdleRegistry
    /\ IdleForward

uncached == <<proxy, specs, event, msgbuf, ifsend, send_incomplete, retry, fallback,
              pc, call, attempts, result, error, before, arg, value, registry,
              forward>>

\* Time passes.
Tick ==
    /\ now < MaxTime
    /\ now' = now + 1
    /\ UNCHANGED <<uncached, onshelf, real, inflight, history>>

\* AsyncFishCache.__call__(a), up to its return or to "await self.func(...)"
Lookup(a) ==
    /\ Len(history) + Cardinality(inflight) < MaxCalls
    /\ real' = Kept(now)
    /\ IF Hits(Kept(now), a) # {}
       THEN /\ history' = Recorded([args |-> a, t |-> now], FALSE,
                                 Kept(now)[FirstHit(Kept(now), a)].val, "none")
            /\ inflight' = inflight
       ELSE /\ inflight' = inflight \cup
                            {[args |-> a, t |-> now,
                              id |-> Len(history) + Cardinality(inflight) + 1]}
            /\ history' = history
    /\ UNCHANGED <<uncached, onshelf, now>>

\* The calls made one after the other: none is awaiting self.func
Call(a) == inflight = {} /\ Lookup(a)

\* self.func returns to the call c: "self.real.append((args, kwds, now, val))"
FuncReturns(c) ==
    /\ c \in inflight
    /\ inflight' = inflight \ {c}
    /\ real' = Append(real, [args |-> c.args, t |-> c.t, val |-> Invocations + 1])
    /\ history' = Recorded(c, TRUE, Invocations + 1, "none")
    /\ UNCHANGED <<uncached, onshelf, now>>

\* self.func raises: nothing is stored
FuncRaises(c) ==
    /\ c \in inflight
    /\ inflight' = inflight \ {c}
    /\ history' = Recorded(c, TRUE, 0, "raised")
    /\ UNCHANGED <<uncached, onshelf, now, real>>

NextCache ==
    \/ Tick
    \/ \E a \in CacheArgs : Call(a)
    \/ \E c \in inflight : FuncReturns(c)
    \/ \E c \in inflight : FuncRaises(c)

SpecCache == InitCache /\ [][NextCache]_vars

\* The cache called from several tasks: a call may begin while others are
\* suspended at "await self.func(...)"; nothing in __call__ makes it wait.
NextTasks ==
    \/ Tick
    \/ \E a \in CacheArgs : Lookup(a)
    \/ \E c \in inflight : FuncReturns(c)
    \/ \E c \in inflight : FuncRaises(c)

SpecTasks == InitCache /\ [][NextTasks]_vars

----------------------------------------------------------------------------
(* Forward messages (platforms.py, ForwardNode and ForwardBuffer).  A     *)
(* node is a MsgBufManager of its own; "async with fb.node(...)" creates  *)
(* it and enters its scope, and __aexit__ attaches what it holds to the   *)
(* parent node's buffer or to fwdbuf.  The proxy of a ForwardBuffer is    *)
(* the one find_proxy gives for a OneBot v11 bot.  An element of a node's *)
(* buffer is a record kind, data, node, content: node and content are the *)
(* node number and exported content of a nested node segment, 0 and <<>>  *)
(* for an element the caller appended.  pc, call, attempts, result and    *)
(* error are those of the ForwardBuffer operation; before is fwdbuf as it *)
(* was when the operation was called.  The nodes hand their content to    *)
(* the ForwardBuffer through fwdbuf alone: SpecNodes builds fwdbuf from   *)
(* node scopes, SpecForward sends a fwdbuf that node scopes have built.   *)

MaxNodes == 2
MaxContent == 1

\* The elements the caller appends to a node; int() of the second one's id
\* fails when the node is exported.
NodeInputs == { Seg("Text", "-"), Seg("Reply", "nondigits") }

Elem(seg) == [kind |-> seg.kind, data |-> seg.data, node |-> 0, content |-> <<>>]

\* Raw(OB11MS("node", {"uin": ..., "name": ..., "content": content}))
NodeRaw(n, content) == [kind |-> "Raw", data |-> "own", node |-> n, content |-> content]

\* OB11MS("node", {"uin": ..., "name": ..., "content": content})
NodeSegment(n, content) == [node |-> n, content |-> content]

\* The conversion errors of a buffer, in element order.
ConvertErrors(segs) ==
    SelectSeq([j \in 1..Len(segs) |-> OB11Convert(segs[j]).err],
              LAMBDA e : e # "none")

\* ForwardNode.export: asyncio.gather of self.fb.proxy.convert over the
\* node's buffer; err is the exception it raises.
NodeExport(segs) ==
    [err |-> IF ConvertErrors(segs) = <<>> THEN "none" ELSE Head(ConvertErrors(segs)),
     content |-> [j \in 1..Len(segs) |->
                    [kind |-> segs[j].kind, form |-> OB11Convert(segs[j]).form,
                     node |-> segs[j].node, content |-> segs[j].content]]]

\* A faulty variant: the scope's error is not looked at.
AttachesAlways(exc_tb, allow_incomplete) == TRUE

\* ForwardNode.__aexit__: "if exc_tb and not self.allow_incomplete: return False"
Attaches(exc_tb, allow_incomplete) == ~exc_tb \/ allow_incomplete

\* The number of node scopes that have been exited.
Exits == Cardinality({m \in 1..Len(nodes) : nodes[m].scope = "exited"})

\* ForwardNode.__init__ for the node that fn.node() (fn = 0: fb.node())
\* returns.
NewNode(fn, allow_incomplete) ==
    [fn |-> fn, allow_incomplete |-> allow_incomplete, msgbuf |-> <<>>,
     scope |-> "open", exc |-> FALSE, at |-> 0]

\* ForwardBuffer.__init__ with no retry, then node scopes
InitNodes ==
    /\ proxy = "OB11"
    /\ specs = 0
    /\ event = "private"
    /\ msgbuf = <<>>
    /\ ifsend = TRUE
    /\ send_incomplete \in BOOLEAN
    /\ retry = 0
    /\ fallback = 0
    /\ pc = "idle"
    /\ call = NoCall
    /\ attempts = <<>>
    /\ result = "none"
    /\ error = "none"
    /\ FreshBuffer
    /\ IdleRegistry
    /\ IdleCache
    /\ fwdbuf = <<>>
    /\ nodes = <<>>
    /\ dest = "private"

unforwarded == <<proxy, specs, event, msgbuf, ifsend, send_incomplete, fallback,
                 registry, cache, dest>>

\* What a node operation leaves alone.
NodeOnly ==
    UNCHANGED <<unforwarded, retry, pc, call, attempts, result, error, before,
                arg, value>>

\* async with fb.node(uid, name): ForwardBuffer.node, then __aenter__
FwdNode ==
    /\ pc = "idle"
    /\ Len(nodes) < MaxNodes
    /\ nodes' = Append(nodes, NewNode(0, send_incomplete))
    /\ UNCHANGED fwdbuf
    /\ NodeOnly

\* async with fn.node(uid, name): ForwardNode.node, then __aenter__
NodeNode(fn) ==
    /\ pc = "idle"
    /\ Len(nodes) < MaxNodes
    /\ nodes' = Append(nodes, NewNode(fn, nodes[fn].allow_incomplete))
    /\ UNCHANGED fwdbuf
    /\ NodeOnly

\* node << m inside the node's scope
NodeLshift(n, m) ==
    /\ pc = "idle"
    /\ nodes[n].scope = "open"
    /\ Len(nodes[n].msgbuf) < MaxContent
    /\ nodes' = [nodes EXCEPT ![n].msgbuf = Append(@, Elem(m))]
    /\ UNCHANGED fwdbuf
    /\ NodeOnly

\* ForwardNode.__aexit__(exc_tp, exc_val, exc_tb) of node n
NodeExit(n, exc_tb) ==
    /\ pc = "idle"
    /\ nodes[n].scope = "open"
    /\ LET x == NodeExport(nodes[n].msgbuf)
           fn == nodes[n].fn
           left == [nodes EXCEPT ![n].scope = "exited", ![n].exc = exc_tb,
                                 ![n].at = Exits + 1]
       IN  IF Attaches(exc_tb, nodes[n].allow_incomplete) /\ x.err = "none"
           THEN IF fn # 0
                THEN /\ nodes' = [left EXCEPT ![fn].msgbuf =
                                                Append(@, NodeRaw(n, x.content))]
                     /\ UNCHANGED fwdbuf
                ELSE /\ fwdbuf' = Append(fwdbuf, NodeSegment(n, x.content))
                     /\ nodes' = left
           ELSE /\ nodes' = left
                /\ UNCHANGED fwdbuf
    /\ NodeOnly

NextNodes ==
    \/ FwdNode
    \/ \E fn \in 1..Len(nodes) : NodeNode(fn)
    \/ \E n \in 1..Len(nodes) : \E m \in NodeInputs : NodeLshift(n, m)
    \/ \E n \in 1..Len(nodes) : \E exc_tb \in BOOLEAN : NodeExit(n, exc_tb)

SpecNodes == InitNodes /\ [][NextNodes]_vars

\* The node scopes that have built a fwdbuf of k nodes: top-level nodes
\* created and exited one after another without error, each holding the
\* elements segs.
BuiltNodes(k, segs) ==
    [n \in 1..k |-> [fn |-> 0, allow_incomplete |-> send_incomplete,
                     msgbuf |-> segs, scope |-> "exited", exc |-> FALSE, at |-> n]]

\* The fwdbuf those scopes have built.
BuiltFwdbuf(k, segs) ==
    [n \in 1..k |-> NodeSegment(n, NodeExport(segs).content)]

\* ForwardBuffer.__init__, then the node scopes of the block
InitForward ==
    /\ proxy = "OB11"
    /\ specs = 0
    /\ event = "private"
    /\ msgbuf = <<>>
    /\ ifsend \in BOOLEAN
    /\ send_incomplete \in BOOLEAN
    /\ retry \in 0..MaxRetry
    /\ fallback = 0
    /\ pc = "idle"
    /\ call = NoCall
    /\ attempts = <<>>
    /\ result = "none"
    /\ error = "none"
    /\ FreshBuffer
    /\ IdleRegistry
    /\ IdleCache
    /\ \E k \in 0..MaxNodes :
          /\ nodes = BuiltNodes(k, <<Elem(Seg("Text", "-"))>>)
          /\ fwdbuf = BuiltFwdbuf(k, <<Elem(Seg("Text", "-"))>>)
    /\ dest \in {"private", "group"}

\* A ForwardBuffer operation is called.
FwdCalled == before' = fwdbuf /\ arg' = 0 /\ value' = "none"

\* await fb.send()
FwdSend ==
    /\ pc = "idle"
    /\ pc' = "sending"
    /\ call' = Op("fwd_send", FALSE, FALSE)
    /\ attempts' = <<>>
    /\ result' = "none"
    /\ error' = "none"
    /\ FwdCalled
    /\ UNCHANGED <<unforwarded, retry, fwdbuf, nodes>>

\* ForwardBuffer.__aexit__: the condition under which it awaits self.send()
FwdSendsOnExit(exc_tb) ==
    ifsend /\ (~exc_tb \/ send_incomplete) /\ fwdbuf # <<>>

\* ForwardBuffer.__aexit__(exc_tp, exc_val, exc_tb)
FwdExit(exc_tb) ==
    /\ pc = "idle"
    /\ call' = Op("fwd_aexit", FALSE, exc_tb)
    /\ attempts' = <<>>
    /\ IF FwdSendsOnExit(exc_tb)
       THEN /\ pc' = "sending"
            /\ result' = "none"
            /\ error' = "none"
       ELSE /\ pc' = "idle"
            /\ result' = "returned"
            /\ error' = AfterExit(exc_tb, ExitReturn(exc_tb))
    /\ FwdCalled
    /\ UNCHANGED <<unforwarded, retry, fwdbuf, nodes>>

\* self.bot.send_group_forward_msg / send_private_forward_msg with
\* messages=self.fwdbuf (parts: the messages passed)
ForwardCall ==
    [api |-> IF dest = "group" THEN "send_group_forward_msg"
             ELSE "send_private_forward_msg",
     parts |-> fwdbuf, reply |-> 0]

\* The exceptions the bot call can raise.
ForwardErrors == {"ActionFailed", "NetworkError"}

\* A faulty variant: the failure is raised at once.
FwdOnActionFailedNoRetry == "raise"

\* ForwardBuffer.send: what follows "except ActionFailed"
FwdOnActionFailed == IF retry > 0 THEN "retry" ELSE "raise"

\* One "await sender(**kwds)" of ForwardBuffer.send, which returns or
\* raises e, and what send() does with it up to the next suspension.
FwdAttempt(e) ==
    /\ pc = "sending"
    /\ attempts' = Logged([calls |-> <<ForwardCall>>,
                           failed |-> IF e = "none" THEN 0 ELSE 1, err |-> e])
    /\ IF e = "none"
       THEN /\ pc' = "idle"
            /\ result' = "returned"
            /\ error' = IF call.op = "fwd_aexit"
                         THEN AfterExit(call.exc, ExitReturn(call.exc)) ELSE "none"
       ELSE IF Caught(e) /\ FwdOnActionFailed # "raise"
       THEN /\ pc' = "cooldown"
            /\ UNCHANGED <<result, error>>
       ELSE /\ pc' = "idle"
            /\ result' = "raised"
            /\ error' = e
    /\ UNCHANGED <<unforwarded, retry, call, before, arg, value, fwdbuf, nodes>>

\* After "await asyncio.sleep(self.cooldown)": "self.retry -= 1" and send()
\* calls itself.
FwdResume ==
    /\ pc = "cooldown"
    /\ retry' = retry - 1
    /\ pc' = "sending"
    /\ UNCHANGED <<unforwarded, call, attempts, result, error, before, arg, value,
                   fwdbuf, nodes>>

\* The task running ForwardBuffer.send is cancelled while it awaits
\* asyncio.sleep(self.cooldown).
FwdCancel ==
    /\ pc = "cooldown"
    /\ pc' = "idle"
    /\ result' = "cancelled"
    /\ error' = "CancelledError"
    /\ UNCHANGED <<unforwarded, retry, call, attempts, before, arg, value,
                   fwdbuf, nodes>>

NextForward ==
    \/ FwdSend
    \/ \E exc_tb \in BOOLEAN : FwdExit(exc_tb)
    \/ \E e \in {"none"} \cup ForwardErrors : FwdAttempt(e)
    \/ FwdResume
    \/ FwdCancel

SpecForward == InitForward /\ [][NextForward]_vars

----------------------------------------------------------------------------
(* Reading the log of attempts. *)

LastAttempt == attempts[Len(attempts)]

\* The outbound message calls among the bot calls an attempt issued:
\* every call but the file-id uploads of OB12Proxy.convert.
IsOutbound(c) == c.api # "upload_file"
Outbound(calls) == SelectSeq(calls, IsOutbound)

\* The buffer indices the calls carry, in call order then part order.
RECURSIVE Carried(_)
Carried(calls) ==
    IF calls = <<>> THEN <<>>
    ELSE [j \in 1..Len(Head(calls).parts) |-> Head(calls).parts[j].i]
         \o Carried(Tail(calls))

CountKind(c, kind) == Cardinality({j \in 1..Len(c.parts) : c.parts[j].kind = kind})

\* A send() in normal mode on a platform proxy has returned.
NormalSendReturned ==
    /\ proxy \in PlatformProxies
    /\ pc = "idle" /\ result = "returned"
    /\ call.op = "send"
    /\ attempts # <<>> /\ ~LastAttempt.fb

\* The normal-mode attempts made on a platform proxy so far.
NormalAttempts ==
    IF proxy \in PlatformProxies
    THEN {j \in 1..Len(attempts) : ~attempts[j].fb}
    ELSE {}

----------------------------------------------------------------------------
(* Claims about the proxies (checked under SpecProxy). *)

\* C1: on every platform proxy a normal-mode send carries every element of
\* the sequence in exactly one outbound call, and the calls read in the
\* order issued yield the elements in append order.
C1_EveryElementOnceInOrder ==
    NormalSendReturned =>
        Carried(Outbound(LastAttempt.calls)) = [i \in 1..Len(msgbuf) |-> i]

\* C2: on every platform proxy, an outbound call of a normal-mode send that
\* carries a Mutex element carries nothing else.
C2_MutexAlone ==
    \A a \in NormalAttempts :
        \A n \in 1..Len(attempts[a].calls) :
            LET c == attempts[a].calls[n]
            IN  (IsOutbound(c) /\ \E j \in 1..Len(c.parts) : c.parts[j].kind \in MutexKinds)
                    => Len(c.parts) = 1

\* C3: on every platform proxy, no outbound call of a normal-mode send
\* carries more than one Reply.
C3_OneReplyPerCall ==
    \A a \in NormalAttempts :
        \A n \in 1..Len(attempts[a].calls) :
            CountKind(attempts[a].calls[n], "Reply") <= 1

\* C4: on the OneBot v11 / v12 proxies with the PLATFORM_QQ bit set, no
\* outbound call of a normal-mode send carries both a Reply and an Image,
\* in whichever order they were appended.
C4_NoReplyWithImage ==
    (proxy \in {"OB11", "OB12"} /\ BitAnd(specs, PLATFORM_QQ) # 0) =>
        \A a \in NormalAttempts :
            \A n \in 1..Len(attempts[a].calls) :
                ~(/\ CountKind(attempts[a].calls[n], "Reply") > 0
                  /\ CountKind(attempts[a].calls[n], "Image") > 0)

\* C5: on every proxy, a fallback-mode send in which the bot rejects no call
\* issues exactly one bot call, a send of the alternative() strings of all
\* elements in sequence order, and returns: no native conversion, no upload.
C5_FallbackOnePlainCall ==
    \A a \in 1..Len(attempts) :
        (attempts[a].fb /\ attempts[a].failed = 0) =>
            /\ attempts[a].err = "none"
            /\ attempts[a].calls =
                 << SendCall([i \in 1..Len(msgbuf) |-> Part(i, msgbuf[i], "altstr")], 0) >>

\* C15: in a normal-mode send on a platform proxy whose k-th bot call is
\* rejected, the calls issued are exactly the first k of the calls the send
\* would make (those before the k-th stay issued, those after it are never
\* issued), and the failure propagates: the send raises ActionFailed and
\* returns nothing.
C15_FailureStopsAttempt ==
    \A a \in NormalAttempts :
        attempts[a].failed > 0 =>
            LET plan == ProxySend(proxy, specs, event, msgbuf, FALSE)
            IN  /\ attempts[a].calls = SubSeq(plan.calls, 1, attempts[a].failed)
                /\ attempts[a].err = "ActionFailed"
                /\ pc = "idle" /\ result = "raised" /\ error = "ActionFailed"

\* C15 witness: of at least three calls the send would make, one that is
\* neither the first nor the last was rejected.
C15_Witness ==
    /\ NormalAttempts # {}
    /\ LastAttempt.failed > 1
    /\ LastAttempt.failed < Len(ProxySend(proxy, specs, event, msgbuf, FALSE).calls)
    /\ result = "raised"

\* C20: on the QQ Guild proxy every Image and every Reply of the sequence,
\* those arriving while the message already holds an image or a reply
\* included, is carried by an outbound call of a normal-mode send: the
\* arriving element opens the next message.
C20_ArrivingElementKept ==
    (proxy = "QG" /\ NormalSendReturned) =>
        \A i \in 1..Len(msgbuf) :
            msgbuf[i].kind \in {"Image", "Reply"} =>
                \E n \in 1..Len(LastAttempt.calls) :
                    \E j \in 1..Len(LastAttempt.calls[n].parts) :
                        LastAttempt.calls[n].parts[j].i = i

\* The partition the claims describe: the buffer indices grouped into one
\* group per Mutex element and one per maximal run of consecutive non-Mutex
\* elements, in sequence order.  open tells whether the last group is a run
\* still being extended.
RECURSIVE Groups(_, _, _, _)
Groups(segs, i, done, open) ==
    IF i > Len(segs) THEN done
    ELSE IF segs[i].kind \in MutexKinds
         THEN Groups(segs, i + 1, Append(done, <<i>>), FALSE)
         ELSE IF open
              THEN Groups(segs, i + 1,
                          [done EXCEPT ![Len(done)] = Append(@, i)], TRUE)
              ELSE Groups(segs, i + 1, Append(done, <<i>>), TRUE)

\* The buffer indices one call carries, in part order.
Indices(c) == [j \in 1..Len(c.parts) |-> c.parts[j].i]

\* C21: on the OneBot v11 / v12 proxies with specs = 0, a normal-mode send
\* that returned issued exactly one outbound call per Mutex element and one
\* per maximal run of consecutive non-Mutex elements, in sequence order, each
\* carrying exactly the elements of its group.
C21_OneCallPerMutexAndRun ==
    (NormalSendReturned /\ proxy \in {"OB11", "OB12"} /\ specs = 0) =>
        LET out == Outbound(LastAttempt.calls)
            groups == Groups(msgbuf, 1, <<>>, FALSE)
        IN  /\ Len(out) = Len(groups)
            /\ \A n \in 1..Len(out) : Indices(out[n]) = groups[n]

\* C21 witness: [Text, Voice, Text] was sent as three calls.
C21_Witness ==
    /\ NormalSendReturned /\ proxy \in {"OB11", "OB12"} /\ specs = 0
    /\ [i \in 1..Len(msgbuf) |-> msgbuf[i].kind] = <<"Text", "Voice", "Text">>
    /\ Len(Outbound(LastAttempt.calls)) = Len(msgbuf)

\* The position in calls of the call that carries buffer index i (0: none).
CallOf(calls, i) ==
    IF \E n \in 1..Len(calls) : \E j \in 1..Len(calls[n].parts) : calls[n].parts[j].i = i
    THEN CHOOSE n \in 1..Len(calls) : \E j \in 1..Len(calls[n].parts) : calls[n].parts[j].i = i
    ELSE 0

\* C22: on the OneBot v11 / v12 proxies, for an Image that follows a
\* non-Mutex element whose call carries a Reply appended before the Image
\* (the accumulator holds a Reply when the Image arrives): the Image is in
\* a later call than that element if and only if the PLATFORM_QQ bit of
\* specs is set.
C22_BoundaryIffPlatformQQ ==
    (NormalSendReturned /\ proxy \in {"OB11", "OB12"}) =>
        LET out == Outbound(LastAttempt.calls)
        IN  \A i \in 2..Len(msgbuf) :
              (/\ msgbuf[i].kind = "Image"
               /\ msgbuf[i - 1].kind \notin MutexKinds
               /\ \E j \in 1..Len(out[CallOf(out, i - 1)].parts) :
                     /\ out[CallOf(out, i - 1)].parts[j].kind = "Reply"
                     /\ out[CallOf(out, i - 1)].parts[j].i < i)
              => ( (CallOf(out, i) > CallOf(out, i - 1))
                       <=> (BitAnd(specs, PLATFORM_QQ) # 0) )

\* C22 witness: with the bit set, [Text, Reply, Image] was sent as the two
\* calls [Text, Reply] and [Image].
C22_Witness ==
    /\ NormalSendReturned /\ proxy \in {"OB11", "OB12"}
    /\ BitAnd(specs, PLATFORM_QQ) # 0
    /\ [i \in 1..Len(msgbuf) |-> msgbuf[i].kind] = <<"Text", "Reply", "Image">>
    /\ [n \in 1..Len(LastAttempt.calls) |-> Indices(LastAttempt.calls[n])]
          \in { <<s, t>> : s \in {<<1, 2>>}, t \in {<<3>>} }

\* The bot calls that upload a file outside a message.
FileUploads == {"upload_group_file", "upload_private_file"}

\* C25: on the OneBot v11 proxy a File is sent through upload_group_file /
\* upload_private_file only when specs has the go-cqhttp bit (the bit
\* OB11_GOCQHTTP adds to PLATFORM_QQ); with specs = PLATFORM_QQ alone or
\* specs = 0 it goes through the generic send.
C25_UploadOnlyWithGocqBit ==
    (proxy = "OB11") =>
        \A a \in NormalAttempts : \A n \in 1..Len(attempts[a].calls) :
            (attempts[a].calls[n].api \in FileUploads)
                => (BitAnd(specs, OB11_GOCQHTTP - PLATFORM_QQ) # 0)

\* The buffer index at which the n-th call of a Telegram send was issued:
\* the index of the Mutex element for a dedicated call and for the flush it
\* forces, one past the end of the buffer for the final flush.
IssuedAt(calls, n) ==
    IF msgbuf[calls[n].parts[1].i].kind \in MutexKinds THEN calls[n].parts[1].i
    ELSE IF n < Len(calls) THEN calls[n + 1].parts[1].i
    ELSE Len(msgbuf) + 1

\* The index of the most recent Reply before buffer index i (0: none).
LastReplyBefore(i) ==
    LET rs == {j \in 1..(i - 1) : j <= Len(msgbuf) /\ msgbuf[j].kind = "Reply"}
    IN  IF rs = {} THEN 0 ELSE CHOOSE j \in rs : \A k \in rs : k <= j

\* C26: on the Telegram proxy, every outbound call issued after a Reply was
\* processed (a flush forced by a Mutex, a dedicated Mutex call, the final
\* flush) carries the most recent Reply's id as its reply target.
C26_EveryCallCarriesReply ==
    (NormalSendReturned /\ proxy = "TG") =>
        \A n \in 1..Len(LastAttempt.calls) :
            LET r == LastReplyBefore(IssuedAt(LastAttempt.calls, n))
            IN  r # 0 => LastAttempt.calls[n].reply = r

\* C27: send() on an empty buffer issues no outbound call and returns an
\* empty list, for the base proxy and every platform proxy, in normal and
\* in fallback mode.
C27_EmptyBufferNoCall ==
    \A a \in 1..Len(attempts) :
        (msgbuf = <<>>) =>
            /\ attempts[a].calls = <<>>
            /\ attempts[a].err = "none"

----------------------------------------------------------------------------
(* Claims about MessageBuffer (checked under Spec). *)

\* An operation that runs send() has ended.
SendOps == {"send", "flush", "aexit"}
Ended == pc = "idle" /\ call.op \in SendOps /\ attempts # <<>>

AllActionFailed == \A j \in 1..Len(attempts) : attempts[j].err = "ActionFailed"

\* C6: when every attempt of a send() entered in normal mode with retry = r
\* and fallback = f raises ActionFailed, the failure propagates after exactly
\* 1 + r + f attempts: the first 1 + r in normal mode, the last f in fallback
\* mode, the fallback counter untouched while retry > 0, both counters 0 at
\* the end.
C6_RetryThenFallback ==
    (Ended /\ result = "raised" /\ AllActionFailed /\ ~attempts[1].fb) =>
        LET r == attempts[1].retry
            f == attempts[1].fallback
        IN  /\ error = "ActionFailed"
            /\ Len(attempts) = 1 + r + f
            /\ \A j \in 1..Len(attempts) :
                  /\ attempts[j].fb = (j > 1 + r)
                  /\ attempts[j].fallback < f => attempts[j].retry = 0
            /\ retry = 0 /\ fallback = 0

\* C6 witness: a send() with retry and fallback budget has used both and
\* propagated the failure.
C6_Witness ==
    /\ Ended /\ result = "raised" /\ AllActionFailed /\ ~attempts[1].fb
    /\ attempts[1].retry > 0 /\ attempts[1].fallback > 0
    /\ LastAttempt.fb

\* C7 as claimed: once flush() has ended, by returning or by propagating the
\* failure, the buffer is empty.
C7_FlushAlwaysClears ==
    (pc = "idle" /\ call.op = "flush") => msgbuf = <<>>

\* C7 amended: the step that ends flush() empties the buffer when send()
\* returned and leaves the buffer as it was when send() raised.
C7_FlushClearsOnReturn ==
    [][ (call.op = "flush" /\ pc = "sending" /\ pc' = "idle") =>
            IF result' = "returned" THEN msgbuf' = <<>> ELSE msgbuf' = msgbuf ]_vars

\* C7 witness: flush() raised and the buffer still holds its elements.
C7_Witness ==
    pc = "idle" /\ call.op = "flush" /\ result = "raised" /\ msgbuf # <<>>

\* C8: the asynchronous exit hook makes a send attempt if and only if
\* sending is enabled, the buffer is non-empty and the block raised no error
\* or send_incomplete is set; otherwise it ends with no bot call issued.
C8_ExitSendsIff ==
    call.op = "aexit" =>
        ( (pc # "idle" \/ attempts # <<>>)
            <=> (ifsend /\ msgbuf # <<>> /\ (~call.exc \/ send_incomplete)) )

\* C8 witness: the hook sent after an erroring block (send_incomplete).
C8_Witness ==
    /\ call.op = "aexit" /\ call.exc /\ pc = "idle"
    /\ attempts # <<>> /\ Len(LastAttempt.calls) > 0

\* C9: after the asynchronous exit hook has sent successfully the buffer
\* is empty.
C9_ExitSendClears ==
    (pc = "idle" /\ call.op = "aexit" /\ result = "returned" /\ attempts # <<>>)
        => msgbuf = <<>>

C16_OnlyActionFailedRetries ==
    \A j \in 1..Len(attempts) :
        attempts[j].err \notin {"none", "ActionFailed"} =>
            /\ j = Len(attempts)
            /\ pc = "idle" /\ result = "raised" /\ error = attempts[j].err
            /\ retry = attempts[j].retry /\ fallback = attempts[j].fallback

\* C16 witness: with retry and fallback budget left, the first attempt of a
\* send() raised a conversion error and it propagated.
C16_Witness ==
    /\ Ended /\ result = "raised"
    /\ Len(attempts) = 1
    /\ error \notin {"none", "ActionFailed"}
    /\ retry > 0 /\ fallback > 0

\* C17: during and after a send(), whether it returned, propagated a failure
\* or was cancelled during a cooldown, the buffer holds what it held when
\* send() was called.
C17_SendKeepsBuffer ==
    call.op = "send" => msgbuf = before

\* C17 witness: a send() with a non-empty buffer was cancelled during the
\* cooldown that follows a failed attempt.
C17_Witness ==
    /\ call.op = "send" /\ pc = "idle" /\ result = "cancelled"
    /\ msgbuf # <<>> /\ attempts # <<>>

----------------------------------------------------------------------------
(* Claims about the buffer operations (checked under SpecBuf). *)

\* C11: revert(n) with n greater than the buffer's length raises an
\* underflow error and leaves the buffer as it was before the call, length
\* and contents.
C11_RevertUnderflowNoPartial ==
    (call.op = "revert" /\ arg > Len(before)) =>
        /\ result = "raised"
        /\ msgbuf = before

\* C12: a step revert(k) taken right after an append (k = 1) or an add of k
\* elements returns and leaves the buffer as it was before that append or
\* add, same length, same elements, same order.
C12_AppendRevertInverse ==
    [][ (call.op \in {"append", "add"} /\ call'.op = "revert" /\ arg' = arg) =>
            (result' = "returned" /\ msgbuf' = before) ]_vars

\* C12 witness: revert(1) has returned after removing the last element of a
\* buffer that held several, the rest still in place.
C12_Witness ==
    /\ call.op = "revert" /\ arg = 1 /\ result = "returned"
    /\ msgbuf # <<>>
    /\ before = Append(msgbuf, before[Len(before)])
    /\ before[Len(before)] # before[1]

RaisingAt(p, buf) == {i \in 1..Len(buf) : Convert(p, buf[i]).err # "none"}

C19_LocalPathFailsExactly ==
    call.op = "local_path" =>
        ( result = "raised"
            <=> before[arg].data \in {"bytes", "BytesIO", "url"} )

----------------------------------------------------------------------------
(* Claims about the proxy registry (checked under SpecFind). *)

\* The positions of the registry whose prefix is a prefix of module b.
Matching(reg, b) == {i \in 1..Len(reg) : StartsWith(b, reg[i].prefix)}

\* C14: a find_proxy step leaves the registry as it was and selects the
\* registered proxy of least position whose prefix is a prefix of the bot's
\* module, or the base proxy when no registered prefix is one.
C14_FirstMatchOrBase ==
    [][ call'.op = "find_proxy" =>
          /\ registered_proxies' = registered_proxies
          /\ LET m == Matching(registered_proxies, bot')
             IN  IF m = {} THEN proxy' = "Base"
                 ELSE \E i \in m : /\ \A j \in m : i <= j
                                   /\ proxy' = registered_proxies[i].cls ]_vars

\* C14 witness: two registered proxies match the bot and the one registered
\* first was selected.
C14_Witness ==
    /\ call.op = "find_proxy"
    /\ \E i, j \in Matching(registered_proxies, bot) :
          /\ i < j
          /\ registered_proxies[i].cls # registered_proxies[j].cls
          /\ proxy = registered_proxies[i].cls

----------------------------------------------------------------------------
(* Claims about the cache (checked under SpecCache, where the calls are  *)
(* made one after the other).                                            *)

\* The earlier calls with the arguments of call j that returned a value and
\* read a time no more than onshelf before the time call j read.
RecentCalls(j) ==
    {i \in 1..(j - 1) : /\ history[i].args = history[j].args
                        /\ history[i].err = "none"
                        /\ history[j].t - history[i].t <= onshelf}

\* C18 as claimed: a call whose arguments equal those of an earlier call made
\* no more than the shelf-life before it does not invoke the wrapped function
\* and returns the value that call returned.
C18_RecentCallIsServed ==
    \A j \in 1..Len(history) :
        RecentCalls(j) # {} =>
            /\ ~history[j].invoked
            /\ \A i \in RecentCalls(j) : history[j].val = history[i].val

\* Those of them that invoked the wrapped function, and so made an entry.
RecentEntries(j) == {i \in RecentCalls(j) : history[i].invoked}

\* C18 amended: a call returns a stored value without invoking the wrapped
\* function exactly when an earlier call with equal arguments invoked the
\* function, got a value, and was made no more than the shelf-life before it;
\* the value is the one that call got.  Otherwise (no such call, or the entry
\* is older than the shelf-life, however recently it was last served) the
\* wrapped function is invoked again.
C18_EntryAgeDecides ==
    \A j \in 1..Len(history) :
        /\ history[j].invoked <=> (RecentEntries(j) = {})
        /\ \A i \in RecentEntries(j) : history[j].val = history[i].val

\* C18 witness: a value was stored, served to a second call, and a third
\* call, made within the shelf-life of the second but not of the first,
\* invoked the function again.
C18_Witness ==
    \E i, j, k \in 1..Len(history) :
        /\ i < j /\ j < k
        /\ history[i].args = history[j].args /\ history[j].args = history[k].args
        /\ history[i].invoked /\ ~history[j].invoked /\ history[k].invoked
        /\ history[k].t - history[j].t <= onshelf
        /\ history[k].t - history[i].t > onshelf

\* C23: a retry re-partitions and re-sends the whole buffer from its first
\* element.  When a normal-mode attempt was rejected at its k-th call,
\* k > 1, and a retry follows, the retry issues calls 1..k-1 again, the same
\* calls in the same order, stopping short of them only where it is itself
\* rejected.
C23_RetryResendsFromStart ==
    \A j \in 1..(Len(attempts) - 1) :
        (~attempts[j].fb /\ attempts[j].failed > 1 /\ ~attempts[j + 1].fb) =>
            LET k == attempts[j].failed
                again == attempts[j + 1].calls
            IN  /\ again # <<>>
                /\ \A m \in 1..(k - 1) :
                      m <= Len(again) => again[m] = attempts[j].calls[m]
                /\ Len(again) < k - 1 => attempts[j + 1].failed = Len(again)

\* C23 witness: an attempt was rejected at its second or a later call and
\* the retry that followed went through, issuing every call.
C23_Witness ==
    /\ Ended /\ result = "returned" /\ Len(attempts) > 1
    /\ ~attempts[1].fb /\ attempts[1].failed > 1
    /\ ~LastAttempt.fb /\ LastAttempt.failed = 0
    /\ Len(LastAttempt.calls) >= attempts[1].failed

\* C24: the retry and fallback counters belong to the MessageBuffer: over any
\* sequence of send() / flush() calls neither ever increases and neither
\* drops below zero.
C24_CountersOnlyDecrease ==
    [][ /\ retry' <= retry /\ fallback' <= fallback
        /\ retry' >= 0 /\ fallback' >= 0 ]_vars

\* C24 witness: a send() / flush() has ended that consumed a retry and a
\* fallback; both counters are lower than when it began.
C24_Witness ==
    /\ Ended /\ call.op \in {"send", "flush"}
    /\ attempts[1].retry > retry /\ retry >= 0
    /\ attempts[1].fallback > fallback /\ fallback >= 0

\* C30: when a second call with equal arguments starts while the first
\* call's function is suspended, the function is still invoked at most once
\* for those arguments and the cache holds at most one entry per argument
\* tuple.
C30_OneInvocationPerArgs ==
    /\ \A c, d \in inflight : c.args = d.args => c = d
    /\ \A i, j \in 1..Len(real) : real[i].args = real[j].args => i = j

----------------------------------------------------------------------------
(* Claims about forward messages (C28 checked under SpecNodes, C29 under *)
(* SpecForward).                                                          *)

\* The contents of node n that were attached to its target: the entries of
\* fwdbuf for a top-level node, the node segments in the parent's buffer
\* for a nested one.
AttachedOf(n) ==
    IF nodes[n].fn = 0
    THEN {<<j, fwdbuf[j].content>> : j \in {i \in 1..Len(fwdbuf) : fwdbuf[i].node = n}}
    ELSE {<<j, nodes[nodes[n].fn].msgbuf[j].content>> :
            j \in {i \in 1..Len(nodes[nodes[n].fn].msgbuf) :
                      nodes[nodes[n].fn].msgbuf[i].node = n}}

\* The scope of node n ended without error, or incomplete content is allowed.
CleanOrAllowed(n) ==
    nodes[n].scope = "exited" /\ (~nodes[n].exc \/ nodes[n].allow_incomplete)

\* C28: a node's content is appended to its target (fwdbuf for a top-level
\* node, the parent's buffer for a nested one) exactly once, at scope exit,
\* and only if the scope had no error or allow_incomplete is set; it is the
\* conversion of what the node held at that moment; the nodes of fwdbuf
\* appear in exit order; and a nested node's content is part of what its
\* parent attached only if the nested scope exited before the parent's.
C28_NodeAttachedOnceAtExit ==
    /\ \A n \in 1..Len(nodes) :
          /\ Cardinality(AttachedOf(n)) <= 1
          /\ AttachedOf(n) # {} => CleanOrAllowed(n)
          /\ (CleanOrAllowed(n) /\ ConvertErrors(nodes[n].msgbuf) = <<>>)
                => AttachedOf(n) # {}
          /\ \A a \in AttachedOf(n) :
                /\ Len(a[2]) <= Len(nodes[n].msgbuf)
                /\ a[2] = NodeExport(SubSeq(nodes[n].msgbuf, 1, Len(a[2]))).content
                /\ \A j \in 1..Len(nodes[n].msgbuf) :
                      nodes[n].msgbuf[j].node # 0 =>
                          ( j <= Len(a[2])
                              <=> nodes[nodes[n].msgbuf[j].node].at < nodes[n].at )
    /\ \A i, j \in 1..Len(fwdbuf) :
          i < j => nodes[fwdbuf[i].node].at < nodes[fwdbuf[j].node].at

\* C28 witness: a nested node exited before its parent, after an error in
\* its block with allow_incomplete set; the parent's entry in fwdbuf holds
\* the parent's own element and the nested node's content.
C28_Witness ==
    /\ Len(fwdbuf) = 1
    /\ \E c \in 1..Len(nodes) :
          /\ nodes[c].fn = fwdbuf[1].node
          /\ nodes[c].exc /\ nodes[c].allow_incomplete
          /\ nodes[c].msgbuf # <<>>
          /\ nodes[c].at < nodes[fwdbuf[1].node].at
          /\ Len(fwdbuf[1].content) = Len(nodes[c].msgbuf) + 1
          /\ \E j \in 1..Len(fwdbuf[1].content) :
                /\ fwdbuf[1].content[j].node = c
                /\ fwdbuf[1].content[j].content =
                      NodeExport(nodes[c].msgbuf).content

FwdOps == {"fwd_send", "fwd_aexit"}

\* C29: ForwardBuffer.__aexit__ sends iff the send switch is on, fwdbuf is
\* non-empty and the block had no error or send_incomplete is set; a send
\* entered with retry = r whose attempts all raise ActionFailed makes
\* exactly 1 + r attempts, each the forward call with the whole fwdbuf, and
\* then propagates the failure; and no send modifies fwdbuf.
C29_ForwardSendRetries ==
    (call.op \in FwdOps) =>
        /\ fwdbuf = before
        /\ \A j \in 1..Len(attempts) :
              /\ ~attempts[j].fb
              /\ Len(attempts[j].calls) = 1
              /\ attempts[j].calls[1].parts = before
              /\ attempts[j].calls[1].api =
                    (IF dest = "group" THEN "send_group_forward_msg"
                     ELSE "send_private_forward_msg")
        /\ (pc = "idle" /\ call.op = "fwd_aexit") =>
              ( attempts # <<>>
                  <=> (ifsend /\ before # <<>> /\ (~call.exc \/ send_incomplete)) )
        /\ (pc = "idle" /\ attempts # <<>> /\ AllActionFailed
                /\ result # "cancelled") =>
              /\ Len(attempts) = 1 + attempts[1].retry
              /\ \A j \in 1..Len(attempts) : attempts[j].retry = attempts[1].retry - (j - 1)
              /\ retry = 0
              /\ result = "raised" /\ error = "ActionFailed"

\* C29 witness: the scope exit of a ForwardBuffer with retries, after an
\* error in the block with send_incomplete set, has sent a non-empty fwdbuf
\* 1 + r times and the failure has propagated.
C29_Witness ==
    /\ pc = "idle" /\ call.op = "fwd_aexit" /\ call.exc
    /\ fwdbuf # <<>>
    /\ result = "raised" /\ error = "ActionFailed"
    /\ attempts # <<>> /\ attempts[1].retry > 0
    /\ Len(attempts) = 1 + attempts[1].retry

====
